---- MODULE Spec2Model ----
(***************************************************************************)
(* Model of the entity-component store of ByteArena/ecs (src/ecs.go, the   *)
(* revision with struct Tag {flags, inverse}, Views and destructors).      *)
(*                                                                         *)
(* Representation.                                                         *)
(*   - A uint64 bit mask is the set of its set bit positions (0..63):      *)
(*     a|b is union, a^b is symmetric difference, a&b == b is b \subseteq a*)
(*     and 1<<id is {id} for id < 64 and {} otherwise.                     *)
(*   - *Entity and *Component pointers are the ID the object was created   *)
(*     with; the objects live in the functions entity and component.       *)
(*   - A payload (interface{}) is a number 1..MaxPayload; NilData is the   *)
(*     nil interface value.                                                *)
(*   - A *QueryResult is a record with a field nil (the nil pointer).      *)
(*   - A panic stops the program: fault names it and no action is enabled. *)
(*   - threads holds, for every thread of a concurrent execution, the call *)
(*     it is in, its position in it and its local variables; locks holds   *)
(*     the sync.RWMutex objects; ghost records what was handed out, for    *)
(*     the properties only.                                                *)
(*   - A slice is the sequence of its elements; backing holds, for a       *)
(*     view's entities, the elements of the backing array behind the       *)
(*     slice's length, which a thread with an older length still reads.    *)
(***************************************************************************)
EXTENDS Integers, Sequences, FiniteSets, TLC

VARIABLES manager, component, entity, fault, destructed, last,
          threads, locks, ghost, backing

vars == <<manager, component, entity, fault, destructed, last,
          threads, locks, ghost, backing>>

(***************************************************************************)
(* Bounds of the exploration.                                              *)
(***************************************************************************)
MaxIds == 3
MaxViews == 1
MaxPayload == 2
MaxElements == 2
RegMaxEntities == 2
ConcMaxIds == 3
AttComponents == 2
AttEntities == 2
TagComponents == 2
MaxListed == 2
LimitCalls == 3

(***************************************************************************)
(* Program constants.                                                      *)
(***************************************************************************)
TagBits == 64
OverflowLimit == 63

NilData == 0
\* Stands for an absent argument and for the entity of a nil *QueryResult.
NoArg == 0 - 1
\* An interface value read in two words across a delete: the type word of the
\* payload stored, and a nil data word.  It is neither the payload nor nil.
HalfData == 0 - 2

Range(s) == {s[i] : i \in DOMAIN s}

Min(S) == CHOOSE x \in S : \A y \in S : x <= y

EmptyMap == [x \in {} |-> NilData]

(***************************************************************************)
(* Tag                                                                     *)
(***************************************************************************)
EmptyTag == [flags |-> {}, inverse |-> FALSE]

\* 1 << id on a uint64
ShiftLeft1(id) == IF id < TagBits THEN {id} ELSE {}

\* Mutation: an inverse tag matches iff the candidate lacks every bit of it.
matchesLacksAll(tag, smallertag) ==
    IF smallertag.inverse THEN tag.flags \cap smallertag.flags = {}
    ELSE smallertag.flags \subseteq tag.flags

matches(tag, smallertag) ==
    LET res == smallertag.flags \subseteq tag.flags
    IN  IF smallertag.inverse THEN ~res ELSE res

\* Mutation: the OR also takes over the other tag's inverse flag.
binaryORWithInverse(tag, othertag) ==
    [flags |-> tag.flags \cup othertag.flags, inverse |-> othertag.inverse]

binaryORInPlace(tag, othertag) ==
    [tag EXCEPT !.flags = @ \cup othertag.flags]

binaryNOTInPlace(tag, othertag) ==
    [tag EXCEPT !.flags = (@ \ othertag.flags) \cup (othertag.flags \ @)]

Inverse(tag, value) == [tag EXCEPT !.inverse = value]

(***************************************************************************)
(* The heap: the objects every operation reads and writes.                 *)
(***************************************************************************)
Heap == [manager |-> manager, component |-> component, entity |-> entity,
         fault |-> fault, destructed |-> destructed]

\* An element of a variadic tagelements list: a *Component or a Tag.
ComponentElement(c) == [kind |-> "component", id |-> c, tag |-> EmptyTag]
TagElement(t) == [kind |-> "tag", id |-> NoArg, tag |-> t]

RECURSIVE BuildTagFrom(_, _, _, _)
BuildTagFrom(h, elements, i, tag) ==
    IF i > Len(elements) THEN tag
    ELSE LET el == elements[i]
             othertag == IF el.kind = "component" THEN h.component[el.id].tag
                         ELSE el.tag
         IN  BuildTagFrom(h, elements, i + 1, binaryORInPlace(tag, othertag))

BuildTag(h, elements) == BuildTagFrom(h, elements, 1, EmptyTag)

HasComponent(h, e, c) == matches(h.entity[e].tag, h.component[c].tag)

GetComponentData(h, e, c) ==
    IF e \in DOMAIN h.component[c].data
    THEN [data |-> h.component[c].data[e], ok |-> TRUE]
    ELSE [data |-> NilData, ok |-> FALSE]

NilResult == [nil |-> TRUE, Entity |-> NoArg, Components |-> EmptyMap]

\* Mutation: the found flag of GetComponentData is discarded, as Query does.
fetchIgnoringFound(h, e, tag) ==
    IF ~matches(h.entity[e].tag, tag)
    THEN [nil |-> TRUE, map |-> EmptyMap]
    ELSE LET req == {c \in Range(h.manager.components) :
                        matches(tag, h.component[c].tag)}
         IN  [nil |-> FALSE,
              map |-> [c \in req |-> GetComponentData(h, e, c).data]]

\* The map returned, or nil |-> TRUE for the nil map.
fetchComponentsForEntity(h, e, tag) ==
    IF ~matches(h.entity[e].tag, tag)
    THEN [nil |-> TRUE, map |-> EmptyMap]
    ELSE LET req == {c \in Range(h.manager.components) :
                        matches(tag, h.component[c].tag)}
         IN  IF \E c \in req : ~GetComponentData(h, e, c).ok
             THEN [nil |-> TRUE, map |-> EmptyMap]
             ELSE [nil |-> FALSE,
                   map |-> [c \in req |-> GetComponentData(h, e, c).data]]

GetEntityByID(h, id, tagelements) ==
    IF id \notin h.manager.entitiesByID THEN NilResult
    ELSE LET components ==
                 fetchComponentsForEntity(h, id, BuildTag(h, tagelements))
         IN  IF components.nil THEN NilResult
             ELSE [nil |-> FALSE, Entity |-> id, Components |-> components.map]

Query(h, tag) ==
    LET Hit(e) == matches(h.entity[e].tag, tag)
        hits == SelectSeq(h.manager.entities, Hit)
        req == {c \in Range(h.manager.components) :
                   matches(tag, h.component[c].tag)}
    IN  [i \in 1..Len(hits) |->
            [nil |-> FALSE, Entity |-> hits[i],
             Components |-> [c \in req |-> GetComponentData(h, hits[i], c).data]]]

\* QueryResultCollection.Entities: nil |-> TRUE when an entry is a nil pointer
\* (qr.Entity dereferences it).
Entities(coll) ==
    IF \E i \in DOMAIN coll : coll[i].nil
    THEN [nil |-> TRUE, ids |-> <<>>]
    ELSE [nil |-> FALSE, ids |-> [i \in DOMAIN coll |-> coll[i].Entity]]

Get(h, v) == h.manager.views[v].entities

(***************************************************************************)
(* View.add and View.remove                                                *)
(***************************************************************************)
viewAdd(h, v, e) ==
    LET qr == GetEntityByID(h, e, <<TagElement(h.manager.views[v].tag)>>)
    IN  [h EXCEPT !.manager.views[v].entities = Append(@, qr)]

viewRemove(h, v, e) ==
    LET ents == h.manager.views[v].entities
        n == Len(ents)
        nils == {i \in 1..n : ents[i].nil}
        hits == {i \in 1..n : ~ents[i].nil /\ ents[i].Entity = e}
    IN  IF nils # {} /\ (hits = {} \/ Min(nils) < Min(hits))
        THEN [h EXCEPT !.fault = "nil dereference"]
        ELSE IF hits = {} THEN h
        ELSE LET i == Min(hits)
             IN  [h EXCEPT !.manager.views[v].entities =
                     [j \in 1..(n - 1) |-> IF j = i THEN ents[n] ELSE ents[j]]]

(***************************************************************************)
(* Entity.AddComponent                                                     *)
(***************************************************************************)
RECURSIVE addToViews(_, _, _, _)
addToViews(h, e, tagbefore, v) ==
    IF v > Len(h.manager.views) THEN h
    ELSE LET tag == h.manager.views[v].tag
             h1 == IF ~matches(tagbefore, tag) /\ matches(h.entity[e].tag, tag)
                   THEN viewAdd(h, v, e) ELSE h
         IN  addToViews(h1, e, tagbefore, v + 1)

setData(h, e, c, p) ==
    LET old == h.component[c].data
    IN  [h EXCEPT !.component[c].data =
            [x \in DOMAIN old \cup {e} |-> IF x = e THEN p ELSE old[x]]]

\* Mutation: the signature is assigned the component's tag ('=' for '|=').
orTagAssign(h, e, c) ==
    [h EXCEPT !.entity[e].tag.flags = h.component[c].tag.flags]

\* Mutation: the bit is toggled instead of set.
orTagToggle(h, e, c) ==
    [h EXCEPT !.entity[e].tag.flags =
        (@ \ h.component[c].tag.flags) \cup (h.component[c].tag.flags \ @)]

orTag(h, e, c) ==
    [h EXCEPT !.entity[e].tag = binaryORInPlace(@, h.component[c].tag)]

doAddComponent(h, e, c, p) ==
    LET h1 == setData(h, e, c, p)
        tagbefore == h1.entity[e].tag
        h2 == orTag(h1, e, c)
    IN  addToViews(h2, e, tagbefore, 1)

(***************************************************************************)
(* Entity.RemoveComponent                                                  *)
(***************************************************************************)
RECURSIVE removeFromViews(_, _, _, _)
removeFromViews(h, e, tagbefore, v) ==
    IF v > Len(h.manager.views) \/ h.fault # "none" THEN h
    ELSE LET tag == h.manager.views[v].tag
             h1 == IF matches(tagbefore, tag) /\ ~matches(h.entity[e].tag, tag)
                   THEN viewRemove(h, v, e) ELSE h
         IN  removeFromViews(h1, e, tagbefore, v + 1)

callDestructor(h, e, c) ==
    IF h.component[c].destructor /\ e \in DOMAIN h.component[c].data
    THEN [h EXCEPT !.destructed =
             Append(@, [e |-> e, c |-> c, data |-> h.component[c].data[e]])]
    ELSE h

deleteData(h, e, c) ==
    LET old == h.component[c].data
    IN  [h EXCEPT !.component[c].data = [x \in DOMAIN old \ {e} |-> old[x]]]

notTag(h, e, c) ==
    [h EXCEPT !.entity[e].tag = binaryNOTInPlace(@, h.component[c].tag)]

doRemoveComponent(h, e, c) ==
    LET h1 == callDestructor(h, e, c)
        h2 == deleteData(h1, e, c)
        tagbefore == h2.entity[e].tag
        h3 == notTag(h2, e, c)
    IN  removeFromViews(h3, e, tagbefore, 1)

(***************************************************************************)
(* Manager.DisposeEntity                                                   *)
(***************************************************************************)
RECURSIVE disposeComponents(_, _, _)
disposeComponents(h, e, i) ==
    IF i > Len(h.manager.components) \/ h.fault # "none" THEN h
    ELSE LET c == h.manager.components[i]
             h1 == IF HasComponent(h, e, c) THEN doRemoveComponent(h, e, c) ELSE h
         IN  disposeComponents(h1, e, i + 1)

\* Mutation: the entity stays in the index.
doDisposeKeepIndex(h, e) == disposeComponents(h, e, 1)

doDisposeEntity(h, e) ==
    LET h1 == disposeComponents(h, e, 1)
    IN  IF h1.fault # "none" THEN h1
        ELSE [h1 EXCEPT !.manager.entitiesByID = @ \ {e}]

\* Manager.DisposeEntities: DisposeEntity for every entity of the list, in
\* order; a panic ends the loop.
RECURSIVE disposeFrom(_, _, _)
disposeFrom(h, entities, i) ==
    IF i > Len(entities) \/ h.fault # "none" THEN h
    ELSE disposeFrom(doDisposeEntity(h, entities[i]), entities, i + 1)

doDisposeEntities(h, entities) == disposeFrom(h, entities, 1)

(***************************************************************************)
(* Manager.NewEntity, Manager.NewComponent, Manager.CreateView             *)
(***************************************************************************)
\* Mutation: the new value is computed from the value read by the limit check
\* (load, add, store) instead of by one atomic add.
nextIdFromCheck(counter, checked) == checked + 1

\* atomic.AddUint32(&manager.componentNumInc, 1) and nextid - 1.  counter is the
\* counter when the add executes, checked the value the caller read before it
\* (NewComponent's limit check; NewEntity reads nothing before).  The counter
\* is a uint32; every exploration keeps it far below 2^32, so it never wraps.
nextId(counter, checked) == counter + 1

idOf(nextid) == nextid - 1

extend(f, k, val) == [x \in DOMAIN f \cup {k} |-> IF x = k THEN val ELSE f[x]]

\* NewEntity under manager.lock: the append and the index entry.
registerEntity(h, id) ==
    [h EXCEPT !.manager.entities = Append(@, id),
              !.manager.entitiesByID = @ \cup {id},
              !.entity = extend(@, id, [ID |-> id, tag |-> EmptyTag])]

doNewEntity(h) ==
    LET nextid == nextId(h.manager.componentNumInc, h.manager.componentNumInc)
    IN  registerEntity([h EXCEPT !.manager.componentNumInc = nextid], idOf(nextid))

overflows(counter) == counter >= OverflowLimit

\* NewComponent under manager.lock: the append.
registerComponent(h, id) ==
    [h EXCEPT !.manager.components = Append(@, id),
              !.component = extend(@, id,
                  [id |-> id,
                   tag |-> [flags |-> ShiftLeft1(id), inverse |-> FALSE],
                   data |-> EmptyMap,
                   destructor |-> FALSE])]

doNewComponent(h) ==
    IF overflows(h.manager.componentNumInc)
    THEN [h EXCEPT !.fault = "Component overflow"]
    ELSE LET nextid == nextId(h.manager.componentNumInc, h.manager.componentNumInc)
         IN  registerComponent([h EXCEPT !.manager.componentNumInc = nextid],
                               idOf(nextid))

doCreateView(h, tagelements) ==
    LET tag == BuildTag(h, tagelements)
        view == [tag |-> tag, entities |-> Query(h, tag)]
    IN  [h EXCEPT !.manager.views = Append(@, view)]

doSetDestructor(h, c) == [h EXCEPT !.component[c].destructor = TRUE]

(***************************************************************************)
(* Sequential executions: every call runs to completion before the next.   *)
(***************************************************************************)
NThreads == 2

Threads == 1..NThreads

\* pc: the position in the call; e, c, p: its arguments; the rest: its locals
\* (id, checked: NewEntity/NewComponent; tagbefore, flags, views, v:
\* AddComponent, RemoveComponent and their loop over the views; ci, found,
\* map: GetEntityByID; n, i, maxbound, atI, atMax, bound, order: View.remove;
\* tag, hits: CreateView; found, p: the payload RemoveComponent reads for the
\* destructor).
IdleThread ==
    [pc |-> "idle", e |-> NoArg, c |-> NoArg, p |-> NoArg, id |-> NoArg,
     checked |-> NoArg, tagbefore |-> EmptyTag, flags |-> {}, views |-> 0,
     v |-> 0, ci |-> 0, found |-> FALSE, map |-> EmptyMap,
     n |-> 0, i |-> 0, maxbound |-> 0, atI |-> NilResult,
     atMax |-> NilResult, bound |-> 0, order |-> "none", tag |-> EmptyTag,
     hits |-> <<>>]

\* A sync.RWMutex: w is the thread that holds it for writing (0: none), r the
\* number of read locks every thread holds.
FreeLock == [w |-> 0, r |-> [t \in Threads |-> 0]]

NoReaders(l) == \A t \in Threads : l.r[t] = 0

InitThreads ==
    /\ threads = [t \in Threads |-> IdleThread]
    /\ locks = [manager |-> FreeLock, data |-> EmptyMap, view |-> EmptyMap]
    /\ ghost = [issued |-> <<>>, disposed |-> {}, afterDispose |-> FALSE]
    /\ backing = EmptyMap

Commit(h) ==
    /\ manager' = h.manager
    /\ component' = h.component
    /\ entity' = h.entity
    /\ fault' = h.fault
    /\ destructed' = h.destructed

\* A call starts with no destructor invocation recorded.
Call == [Heap EXCEPT !.destructed = <<>>]

\* The call that returned last, with what the entity held when it began.
Op(name, e, c, p) ==
    [op |-> name, e |-> e, c |-> c, p |-> p,
     hadBit |-> IF e # NoArg /\ c # NoArg THEN HasComponent(Heap, e, c) ELSE FALSE,
     hadData |-> IF e # NoArg /\ c # NoArg THEN GetComponentData(Heap, e, c).ok
                 ELSE FALSE,
     old |-> IF e # NoArg /\ c # NoArg THEN GetComponentData(Heap, e, c).data
             ELSE NilData]

Running == fault = "none"

\* Every *Entity a caller can hold: manager.entities is never pruned.
Handles == Range(manager.entities)

Registered == Range(manager.components)

Payloads == 1..MaxPayload

AllTags == {[flags |-> f, inverse |-> b] : f \in SUBSET Registered, b \in BOOLEAN}

AllElements == {ComponentElement(c) : c \in Registered}
                   \cup {TagElement(t) : t \in AllTags}

ElementLists == UNION {[1..n -> AllElements] : n \in 0..MaxElements}

Init ==
    /\ manager = [componentNumInc |-> 0, entities |-> <<>>, entitiesByID |-> {},
                  components |-> <<>>, views |-> <<>>]
    /\ component = EmptyMap
    /\ entity = EmptyMap
    /\ fault = "none"
    /\ destructed = <<>>
    /\ last = [op |-> "NewManager", e |-> NoArg, c |-> NoArg, p |-> NoArg,
               hadBit |-> FALSE, hadData |-> FALSE, old |-> NilData]
    /\ InitThreads

NewEntity ==
    /\ Running
    /\ UNCHANGED <<threads, locks, ghost, backing>>
    /\ manager.componentNumInc < MaxIds
    /\ Commit(doNewEntity(Call))
    /\ last' = Op("NewEntity", idOf(manager.componentNumInc + 1), NoArg, NoArg)

NewComponent ==
    /\ Running
    /\ UNCHANGED <<threads, locks, ghost, backing>>
    /\ manager.componentNumInc < MaxIds
    /\ Commit(doNewComponent(Call))
    /\ last' = Op("NewComponent", NoArg,
                  IF overflows(manager.componentNumInc) THEN NoArg ELSE idOf(manager.componentNumInc + 1), NoArg)

SetDestructor ==
    /\ Running
    /\ UNCHANGED <<threads, locks, ghost, backing>>
    /\ \E c \in Registered :
          /\ Commit(doSetDestructor(Call, c))
          /\ last' = Op("SetDestructor", NoArg, c, NoArg)

AddComponent ==
    /\ Running
    /\ UNCHANGED <<threads, locks, ghost, backing>>
    /\ \E e \in Handles, c \in Registered, p \in Payloads :
          /\ Commit(doAddComponent(Call, e, c, p))
          /\ last' = Op("AddComponent", e, c, p)

RemoveComponent ==
    /\ Running
    /\ UNCHANGED <<threads, locks, ghost, backing>>
    /\ \E e \in Handles, c \in Registered :
          /\ Commit(doRemoveComponent(Call, e, c))
          /\ last' = Op("RemoveComponent", e, c, NoArg)

DisposeEntity ==
    /\ Running
    /\ UNCHANGED <<threads, locks, ghost, backing>>
    /\ \E e \in Handles :
          /\ Commit(doDisposeEntity(Call, e))
          /\ last' = Op("DisposeEntity", e, NoArg, NoArg)

EntityLists == UNION {[1..n -> Handles] : n \in 0..MaxListed}

DisposeEntities ==
    /\ Running
    /\ UNCHANGED <<threads, locks, ghost, backing>>
    /\ \E entities \in EntityLists :
          /\ Commit(doDisposeEntities(Call, entities))
          /\ last' = [op |-> "DisposeEntities", e |-> NoArg, c |-> NoArg,
                      p |-> NoArg, hadBit |-> FALSE, hadData |-> FALSE,
                      old |-> NilData, list |-> entities]

CreateView ==
    /\ Running
    /\ UNCHANGED <<threads, locks, ghost, backing>>
    /\ Len(manager.views) < MaxViews
    /\ \E tagelements \in ElementLists :
          /\ Commit(doCreateView(Call, tagelements))
          /\ last' = Op("CreateView", NoArg, NoArg, NoArg)

Next ==
    \/ NewEntity
    \/ NewComponent
    \/ SetDestructor
    \/ AddComponent
    \/ RemoveComponent
    \/ DisposeEntity
    \/ DisposeEntities
    \/ CreateView

Spec == Init /\ [][Next]_vars

(***************************************************************************)
(* Registration up to the component limit: NewEntity and NewComponent on a *)
(* fresh manager, until NewComponent panics.                               *)
(***************************************************************************)
RegNewEntity ==
    /\ Running
    /\ UNCHANGED <<threads, locks, ghost, backing>>
    /\ Len(manager.entities) < RegMaxEntities
    /\ Commit(doNewEntity(Call))
    /\ last' = Op("NewEntity", idOf(manager.componentNumInc + 1), NoArg, NoArg)

RegNewComponent ==
    /\ Running
    /\ UNCHANGED <<threads, locks, ghost, backing>>
    /\ Commit(doNewComponent(Call))
    /\ last' = Op("NewComponent", NoArg,
                  IF overflows(manager.componentNumInc) THEN NoArg ELSE idOf(manager.componentNumInc + 1), NoArg)

RegNext == RegNewEntity \/ RegNewComponent

SpecReg == Init /\ [][RegNext]_vars

(***************************************************************************)
(* Concurrent NewEntity, NewComponent and DisposeEntity calls.  The atomic *)
(* add, NewComponent's unsynchronised limit check and each section under   *)
(* manager.lock are one step each.  DisposeEntity holds manager.lock for   *)
(* all it does, and no other call of this specification touches what it    *)
(* writes without that lock, so it is one step.                            *)
(***************************************************************************)
At(t, pc) == threads[t].pc = pc

Goto(t, pc) == [threads EXCEPT ![t].pc = pc]

ManagerLockFree == locks.manager.w = 0 /\ NoReaders(locks.manager)

\* The counter value at which the exploration stops drawing IDs: ConcMaxIds on
\* a fresh manager, LimitCalls past the setup on a manager set up with
\* OverflowLimit - 1 components.
IdsCap ==
    IF Len(manager.components) >= OverflowLimit - 1
    THEN OverflowLimit - 1 + LimitCalls
    ELSE ConcMaxIds

IdsNewEntityAdd(t) ==
    /\ Running /\ At(t, "idle")
    /\ manager.componentNumInc < IdsCap
    /\ LET nextid == nextId(manager.componentNumInc, manager.componentNumInc)
       IN  /\ manager' = [manager EXCEPT !.componentNumInc = nextid]
           /\ threads' = [threads EXCEPT ![t].pc = "NewEntity:lock",
                                         ![t].id = idOf(nextid)]
           /\ ghost' = [ghost EXCEPT !.issued = Append(@, idOf(nextid)),
                                     !.afterDispose = @ \/ ghost.disposed # {}]
    /\ UNCHANGED <<component, entity, fault, destructed, last, locks, backing>>

IdsNewEntityRegister(t) ==
    /\ Running /\ At(t, "NewEntity:lock")
    /\ ManagerLockFree
    /\ Commit(registerEntity(Heap, threads[t].id))
    /\ last' = Op("NewEntity", threads[t].id, NoArg, NoArg)
    /\ threads' = [threads EXCEPT ![t] = IdleThread]
    /\ UNCHANGED <<locks, ghost, backing>>

IdsNewComponentCheck(t) ==
    /\ Running /\ At(t, "idle")
    /\ manager.componentNumInc < IdsCap
    /\ IF overflows(manager.componentNumInc)
       THEN /\ fault' = "Component overflow"
            /\ UNCHANGED threads
       ELSE /\ threads' = [threads EXCEPT ![t].pc = "NewComponent:add",
                                          ![t].checked = manager.componentNumInc]
            /\ UNCHANGED fault
    /\ UNCHANGED <<manager, component, entity, destructed, last, locks, ghost,
                   backing>>

IdsNewComponentAdd(t) ==
    /\ Running /\ At(t, "NewComponent:add")
    /\ LET nextid == nextId(manager.componentNumInc, threads[t].checked)
       IN  /\ manager' = [manager EXCEPT !.componentNumInc = nextid]
           /\ threads' = [threads EXCEPT ![t].pc = "NewComponent:lock",
                                         ![t].id = idOf(nextid)]
    /\ UNCHANGED <<component, entity, fault, destructed, last, locks, ghost,
                   backing>>

IdsNewComponentRegister(t) ==
    /\ Running /\ At(t, "NewComponent:lock")
    /\ ManagerLockFree
    /\ Commit(registerComponent(Heap, threads[t].id))
    /\ last' = Op("NewComponent", NoArg, threads[t].id, NoArg)
    /\ threads' = [threads EXCEPT ![t] = IdleThread]
    /\ UNCHANGED <<locks, ghost, backing>>

IdsDisposeEntity(t) ==
    /\ Running /\ At(t, "idle")
    /\ ManagerLockFree
    /\ \E e \in Handles :
          /\ Commit(doDisposeEntity(Call, e))
          /\ last' = Op("DisposeEntity", e, NoArg, NoArg)
          /\ ghost' = [ghost EXCEPT !.disposed = @ \cup {e}]
    /\ UNCHANGED <<threads, locks, backing>>

IdsNext ==
    \E t \in Threads :
        \/ IdsNewEntityAdd(t)
        \/ IdsNewEntityRegister(t)
        \/ IdsNewComponentCheck(t)
        \/ IdsNewComponentAdd(t)
        \/ IdsNewComponentRegister(t)
        \/ IdsDisposeEntity(t)

SpecIds == Init /\ [][IdsNext]_vars

(***************************************************************************)
(* Concurrent AddComponent calls, one per thread, on a manager set up      *)
(* beforehand by one thread.  Every access to memory another thread may    *)
(* write, and every lock operation that may block, is a step of its own;   *)
(* a section that takes a lock, makes one access and releases it is one    *)
(* step, enabled when the lock can be taken.  A Lock call first excludes   *)
(* new readers (w is set), then waits for the readers to leave; an RLock   *)
(* call waits while w is set.                                              *)
(***************************************************************************)
DataLock(c) == IF c \in DOMAIN locks.data THEN locks.data[c] ELSE FreeLock

ViewLock(v) == IF v \in DOMAIN locks.view THEN locks.view[v] ELSE FreeLock

SetDataLock(c, l) == [locks EXCEPT !.data = extend(@, c, l)]

SetViewLock(v, l) == [locks EXCEPT !.view = extend(@, v, l)]

RECURSIVE applyAll(_, _, _)
\* The setup: the calls of the list, in order; kind 1 is NewComponent, 2 is
\* NewEntity, 3 is AddComponent(e, c, p), 4 is CreateView(tag).
applyAll(h, calls, i) ==
    IF i > Len(calls) THEN h
    ELSE LET call == calls[i]
             h1 == CASE call.kind = 1 -> doNewComponent(h)
                    [] call.kind = 2 -> doNewEntity(h)
                    [] call.kind = 3 -> doAddComponent(h, call.e, call.c, call.p)
                    [] OTHER -> doCreateView(h, <<TagElement(call.tag)>>)
         IN  applyAll(h1, calls, i + 1)

EmptyHeap ==
    [manager |-> [componentNumInc |-> 0, entities |-> <<>>, entitiesByID |-> {},
                  components |-> <<>>, views |-> <<>>],
     component |-> EmptyMap, entity |-> EmptyMap, fault |-> "none",
     destructed |-> <<>>]

SetupCall(kind, e, c, p, tag) ==
    [kind |-> kind, e |-> e, c |-> c, p |-> p, tag |-> tag]

\* NewComponent x AttComponents, NewEntity x AttEntities: the components get the
\* IDs 0..AttComponents-1 and the entities the IDs that follow.
AttComps == 0..(AttComponents - 1)

AttEnts == AttComponents..(AttComponents + AttEntities - 1)

RECURSIVE SetToSeq(_)
SetToSeq(S) ==
    IF S = {} THEN <<>>
    ELSE LET x == CHOOSE y \in S : \A z \in S : y[1] < z[1] \/ (y[1] = z[1] /\ y[2] <= z[2])
         IN  <<x>> \o SetToSeq(S \ {x})

SetupCalls(held, flags) ==
    [i \in 1..AttComponents |-> SetupCall(1, NoArg, NoArg, NoArg, EmptyTag)]
    \o [i \in 1..AttEntities |-> SetupCall(2, NoArg, NoArg, NoArg, EmptyTag)]
    \o [i \in 1..Cardinality(held) |->
           SetupCall(3, SetToSeq(held)[i][1], SetToSeq(held)[i][2], 1, EmptyTag)]
    \o <<SetupCall(4, NoArg, NoArg, NoArg, [flags |-> flags, inverse |-> FALSE])>>

AttInit ==
    /\ \E held \in SUBSET (AttEnts \X AttComps), flags \in SUBSET AttComps :
          LET h == applyAll(EmptyHeap, SetupCalls(held, flags), 1)
          IN  /\ manager = h.manager
              /\ component = h.component
              /\ entity = h.entity
              /\ fault = h.fault
              /\ destructed = h.destructed
    /\ last = [op |-> "CreateView", e |-> NoArg, c |-> NoArg, p |-> NoArg,
               hadBit |-> FALSE, hadData |-> FALSE, old |-> NilData]
    /\ InitThreads

\* component.datalock.Lock(): new readers are excluded from here on.
AttLock(t) ==
    /\ Running /\ At(t, "idle")
    /\ \E e \in Handles, c \in Registered, p \in Payloads :
          /\ DataLock(c).w = 0
          /\ locks' = SetDataLock(c, [DataLock(c) EXCEPT !.w = t])
          /\ threads' = [threads EXCEPT ![t].pc = "AddComponent:write",
                                        ![t].e = e, ![t].c = c, ![t].p = p]
    /\ UNCHANGED <<manager, component, entity, fault, destructed, last, ghost,
                   backing>>

\* The readers have left: component.data[entity.ID] = componentdata; Unlock().
AttWrite(t) ==
    /\ Running /\ At(t, "AddComponent:write")
    /\ NoReaders(DataLock(threads[t].c))
    /\ Commit(setData(Heap, threads[t].e, threads[t].c, threads[t].p))
    /\ locks' = SetDataLock(threads[t].c, [DataLock(threads[t].c) EXCEPT !.w = 0])
    /\ threads' = Goto(t, "AddComponent:rlock")
    /\ UNCHANGED <<last, ghost, backing>>

\* component.datalock.RLock()
AttRLock(t) ==
    /\ Running /\ At(t, "AddComponent:rlock")
    /\ DataLock(threads[t].c).w = 0
    /\ locks' = SetDataLock(threads[t].c,
                            [DataLock(threads[t].c) EXCEPT !.r[t] = @ + 1])
    /\ threads' = Goto(t, "AddComponent:tagbefore")
    /\ UNCHANGED <<manager, component, entity, fault, destructed, last, ghost,
                   backing>>

\* tagbefore := entity.tag
AttTagBefore(t) ==
    /\ Running /\ At(t, "AddComponent:tagbefore")
    /\ threads' = [threads EXCEPT ![t].pc = "AddComponent:or",
                                  ![t].tagbefore = entity[threads[t].e].tag]
    /\ UNCHANGED <<manager, component, entity, fault, destructed, last, locks,
                   ghost, backing>>

\* tag.flags |= othertag.flags: the load
AttOrRead(t) ==
    /\ Running /\ At(t, "AddComponent:or")
    /\ threads' = [threads EXCEPT ![t].pc = "AddComponent:orwrite",
                                  ![t].flags = entity[threads[t].e].tag.flags]
    /\ UNCHANGED <<manager, component, entity, fault, destructed, last, locks,
                   ghost, backing>>

\* tag.flags |= othertag.flags: the store of the loaded value with the bit
AttOrWrite(t) ==
    /\ Running /\ At(t, "AddComponent:orwrite")
    /\ Commit(orTag([Heap EXCEPT !.entity[threads[t].e].tag.flags = threads[t].flags],
                    threads[t].e, threads[t].c))
    /\ threads' = Goto(t, "AddComponent:range")
    /\ UNCHANGED <<last, locks, ghost, backing>>

\* range entity.manager.views: the slice is read once
AttRange(t) ==
    /\ Running /\ At(t, "AddComponent:range")
    /\ threads' = [threads EXCEPT ![t].pc = "AddComponent:view",
                                  ![t].views = Len(manager.views), ![t].v = 1]
    /\ UNCHANGED <<manager, component, entity, fault, destructed, last, locks,
                   ghost, backing>>

\* An element of manager.views whose store by a concurrent append is not yet
\* visible to a thread that reads the slice without manager.lock: a nil *View.
NilView == [nil |-> TRUE]

IsNilView(view) == "nil" \in DOMAIN view

\* One iteration: the element of manager.views is loaded and view.tag read (a
\* nil *View panics), then the edge test, which reads entity.tag again.
AttView(t) ==
    /\ Running /\ At(t, "AddComponent:view")
    /\ LET v == threads[t].v
           e == threads[t].e
       IN  IF v > threads[t].views
           THEN threads' = Goto(t, "AddComponent:runlock") /\ UNCHANGED fault
           ELSE IF IsNilView(manager.views[v])
           THEN fault' = "nil dereference" /\ UNCHANGED threads
           ELSE /\ threads' =
                     IF ~matches(threads[t].tagbefore, manager.views[v].tag)
                        /\ matches(entity[e].tag, manager.views[v].tag)
                     THEN Goto(t, "add:lock")
                     ELSE [threads EXCEPT ![t].v = v + 1]
                /\ UNCHANGED fault
    /\ UNCHANGED <<manager, component, entity, destructed, last, locks, ghost,
                   backing>>

\* View.add: v.lock.Lock()
ViewAddLock(t) ==
    /\ Running /\ At(t, "add:lock")
    /\ ViewLock(threads[t].v).w = 0 /\ NoReaders(ViewLock(threads[t].v))
    /\ locks' = SetViewLock(threads[t].v, [ViewLock(threads[t].v) EXCEPT !.w = t])
    /\ threads' = Goto(t, "GetEntityByID:rlock")
    /\ UNCHANGED <<manager, component, entity, fault, destructed, last, ghost,
                   backing>>

\* GetEntityByID: manager.lock.RLock() and the index lookup; RUnlock() and nil
\* when the ID is not in the index.
GetRLock(t) ==
    /\ Running /\ At(t, "GetEntityByID:rlock")
    /\ locks.manager.w = 0
    /\ IF threads[t].e \in manager.entitiesByID
       THEN /\ locks' = [locks EXCEPT !.manager.r[t] = @ + 1]
            /\ threads' = Goto(t, "fetch:match")
       ELSE /\ threads' = [threads EXCEPT ![t].pc = "add:append",
                                          ![t].found = FALSE]
            /\ UNCHANGED locks
    /\ UNCHANGED <<manager, component, entity, fault, destructed, last, ghost,
                   backing>>

\* fetchComponentsForEntity: entity.tag.matches(tag)
FetchMatch(t) ==
    /\ Running /\ At(t, "fetch:match")
    /\ LET tag == BuildTag(Heap, <<TagElement(manager.views[threads[t].v].tag)>>)
       IN  threads' =
             IF matches(entity[threads[t].e].tag, tag)
             THEN [threads EXCEPT ![t].pc = "fetch:data", ![t].ci = 1,
                                  ![t].map = EmptyMap, ![t].found = TRUE]
             ELSE [threads EXCEPT ![t].pc = "GetEntityByID:runlock",
                                  ![t].found = FALSE]
    /\ UNCHANGED <<manager, component, entity, fault, destructed, last, locks,
                   ghost, backing>>

\* fetchComponentsForEntity: one component of the loop; GetComponentData takes
\* the component's read lock for its one map access.
FetchData(t) ==
    /\ Running /\ At(t, "fetch:data")
    /\ LET ci == threads[t].ci
           tag == BuildTag(Heap, <<TagElement(manager.views[threads[t].v].tag)>>)
       IN  IF ci > Len(manager.components)
           THEN threads' = Goto(t, "GetEntityByID:runlock")
           ELSE LET c == manager.components[ci]
                    got == GetComponentData(Heap, threads[t].e, c)
                IN  IF ~matches(tag, component[c].tag)
                    THEN threads' = [threads EXCEPT ![t].ci = ci + 1]
                    ELSE /\ DataLock(c).w = 0
                         /\ threads' =
                              IF got.ok
                              THEN [threads EXCEPT ![t].ci = ci + 1,
                                       ![t].map = extend(@, c, got.data)]
                              ELSE [threads EXCEPT
                                       ![t].pc = "GetEntityByID:runlock",
                                       ![t].found = FALSE]
    /\ UNCHANGED <<manager, component, entity, fault, destructed, last, locks,
                   ghost, backing>>

\* GetEntityByID: manager.lock.RUnlock()
GetRUnlock(t) ==
    /\ Running /\ At(t, "GetEntityByID:runlock")
    /\ locks' = [locks EXCEPT !.manager.r[t] = @ - 1]
    /\ threads' = Goto(t, "add:append")
    /\ UNCHANGED <<manager, component, entity, fault, destructed, last, ghost,
                   backing>>

\* View.add: the append of what GetEntityByID returned, and v.lock.Unlock()
ViewAddAppend(t) ==
    /\ Running /\ At(t, "add:append")
    /\ LET v == threads[t].v
           qr == IF threads[t].found
                 THEN [nil |-> FALSE, Entity |-> threads[t].e,
                       Components |-> threads[t].map]
                 ELSE NilResult
       IN  /\ manager' = [manager EXCEPT !.views[v].entities = Append(@, qr)]
           /\ locks' = SetViewLock(v, [ViewLock(v) EXCEPT !.w = 0])
           /\ threads' = [threads EXCEPT ![t].pc = "AddComponent:view",
                                         ![t].v = v + 1]
    /\ UNCHANGED <<component, entity, fault, destructed, last, ghost, backing>>

\* component.datalock.RUnlock() and the return
AttRUnlock(t) ==
    /\ Running /\ At(t, "AddComponent:runlock")
    /\ locks' = SetDataLock(threads[t].c,
                            [DataLock(threads[t].c) EXCEPT !.r[t] = @ - 1])
    /\ threads' = Goto(t, "done")
    /\ last' = [op |-> "AddComponent", e |-> threads[t].e, c |-> threads[t].c,
                p |-> threads[t].p, hadBit |-> FALSE, hadData |-> FALSE,
                old |-> NilData]
    /\ UNCHANGED <<manager, component, entity, fault, destructed, ghost,
                   backing>>

AttNext ==
    \E t \in Threads :
        \/ AttLock(t)
        \/ AttWrite(t)
        \/ AttRLock(t)
        \/ AttTagBefore(t)
        \/ AttOrRead(t)
        \/ AttOrWrite(t)
        \/ AttRange(t)
        \/ AttView(t)
        \/ ViewAddLock(t)
        \/ GetRLock(t)
        \/ FetchMatch(t)
        \/ FetchData(t)
        \/ GetRUnlock(t)
        \/ ViewAddAppend(t)
        \/ AttRUnlock(t)

SpecAttach == AttInit /\ [][AttNext]_vars

(***************************************************************************)
(* Concurrent CreateView and AddComponent calls, one per thread, on a      *)
(* manager set up beforehand without a view.  CreateView builds the tag    *)
(* and runs Query before it takes manager.lock for writing; Query holds    *)
(* manager.lock for reading and reads one entity's tag or one payload per  *)
(* step.                                                                   *)
(***************************************************************************)
CreateSetupCalls(held) ==
    [i \in 1..AttComponents |-> SetupCall(1, NoArg, NoArg, NoArg, EmptyTag)]
    \o [i \in 1..AttEntities |-> SetupCall(2, NoArg, NoArg, NoArg, EmptyTag)]
    \o [i \in 1..Cardinality(held) |->
           SetupCall(3, SetToSeq(held)[i][1], SetToSeq(held)[i][2], 1, EmptyTag)]

CreateInit ==
    /\ \E held \in SUBSET (AttEnts \X AttComps) :
          LET h == applyAll(EmptyHeap, CreateSetupCalls(held), 1)
          IN  /\ manager = h.manager
              /\ component = h.component
              /\ entity = h.entity
              /\ fault = h.fault
              /\ destructed = h.destructed
    /\ last = [op |-> "AddComponent", e |-> NoArg, c |-> NoArg, p |-> NoArg,
               hadBit |-> FALSE, hadData |-> FALSE, old |-> NilData]
    /\ InitThreads

\* tag := BuildTag(tagelements...); Query: manager.lock.RLock() and range
\* manager.entities, which reads the slice once.
CvRLock(t) ==
    /\ Running /\ At(t, "idle")
    /\ locks.manager.w = 0
    /\ \E flags \in SUBSET Registered :
          LET tag == BuildTag(Heap, <<TagElement([flags |-> flags,
                                                  inverse |-> FALSE])>>)
          IN  threads' = [threads EXCEPT ![t].pc = "Query:entity",
                                         ![t].tag = tag, ![t].hits = <<>>,
                                         ![t].i = 1,
                                         ![t].n = Len(manager.entities)]
    /\ locks' = [locks EXCEPT !.manager.r[t] = @ + 1]
    /\ UNCHANGED <<manager, component, entity, fault, destructed, last, ghost,
                   backing>>

\* Query: one entity of the loop, entity.tag.matches(tag)
CvEntity(t) ==
    /\ Running /\ At(t, "Query:entity")
    /\ LET i == threads[t].i
       IN  threads' =
             IF i > threads[t].n THEN Goto(t, "Query:runlock")
             ELSE IF matches(entity[manager.entities[i]].tag, threads[t].tag)
                  THEN [threads EXCEPT ![t].pc = "Query:data", ![t].ci = 1,
                                       ![t].map = EmptyMap]
                  ELSE [threads EXCEPT ![t].i = i + 1]
    /\ UNCHANGED <<manager, component, entity, fault, destructed, last, locks,
                   ghost, backing>>

\* Query: one component of the inner loop; GetComponentData takes the
\* component's read lock for its one map access, and the found flag is
\* discarded.  After the last component the result is appended to matches.
CvData(t) ==
    /\ Running /\ At(t, "Query:data")
    /\ LET ci == threads[t].ci
           e == manager.entities[threads[t].i]
       IN  IF ci > Len(manager.components)
           THEN threads' = [threads EXCEPT
                    ![t].pc = "Query:entity", ![t].i = threads[t].i + 1,
                    ![t].hits = Append(@, [nil |-> FALSE, Entity |-> e,
                                           Components |-> threads[t].map])]
           ELSE LET c == manager.components[ci]
                IN  IF ~matches(threads[t].tag, component[c].tag)
                    THEN threads' = [threads EXCEPT ![t].ci = ci + 1]
                    ELSE /\ DataLock(c).w = 0
                         /\ threads' = [threads EXCEPT ![t].ci = ci + 1,
                               ![t].map = extend(@, c,
                                   GetComponentData(Heap, e, c).data)]
    /\ UNCHANGED <<manager, component, entity, fault, destructed, last, locks,
                   ghost, backing>>

\* Query: manager.lock.RUnlock() and the return of matches
CvRUnlock(t) ==
    /\ Running /\ At(t, "Query:runlock")
    /\ locks' = [locks EXCEPT !.manager.r[t] = @ - 1]
    /\ threads' = Goto(t, "CreateView:lock")
    /\ UNCHANGED <<manager, component, entity, fault, destructed, last, ghost,
                   backing>>

\* manager.lock.Lock(): new readers are excluded from here on.
CvLock(t) ==
    /\ Running /\ At(t, "CreateView:lock")
    /\ locks.manager.w = 0
    /\ locks' = [locks EXCEPT !.manager.w = t]
    /\ threads' = Goto(t, "CreateView:register")
    /\ UNCHANGED <<manager, component, entity, fault, destructed, last, ghost,
                   backing>>

\* The readers have left: the results are copied into view.entities and the
\* view is appended to manager.views.  AddComponent reads manager.views
\* without manager.lock, so the append's two stores are two steps: here the
\* slice header, after which a reader finds the new length with the element
\* still nil.
CvRegister(t) ==
    /\ Running /\ At(t, "CreateView:register")
    /\ NoReaders(locks.manager)
    /\ manager' = [manager EXCEPT !.views = Append(@, NilView)]
    /\ threads' = [threads EXCEPT ![t].pc = "CreateView:element",
                                  ![t].v = Len(manager.views) + 1]
    /\ UNCHANGED <<component, entity, fault, destructed, last, locks, ghost,
                   backing>>

\* The element of the append becomes visible; Unlock() and the return.
CvElement(t) ==
    /\ Running /\ At(t, "CreateView:element")
    /\ manager' = [manager EXCEPT !.views[threads[t].v] =
                      [tag |-> threads[t].tag, entities |-> threads[t].hits]]
    /\ locks' = [locks EXCEPT !.manager.w = 0]
    /\ threads' = Goto(t, "done")
    /\ last' = [op |-> "CreateView", e |-> NoArg, c |-> NoArg, p |-> NoArg,
                hadBit |-> FALSE, hadData |-> FALSE, old |-> NilData]
    /\ UNCHANGED <<component, entity, fault, destructed, ghost, backing>>

CreateNext ==
    \/ AttNext
    \/ \E t \in Threads :
          \/ CvRLock(t)
          \/ CvEntity(t)
          \/ CvData(t)
          \/ CvRUnlock(t)
          \/ CvLock(t)
          \/ CvRegister(t)
          \/ CvElement(t)

SpecCreate == CreateInit /\ [][CreateNext]_vars

(***************************************************************************)
(* Concurrent RemoveComponent calls, one per thread, on a manager set up   *)
(* beforehand by one thread.  The call holds its component's datalock for  *)
(* writing from the delete to its return; View.remove holds the view's     *)
(* lock for reading only, so the threads' loads and stores of v.entities   *)
(* (the slice header and the elements of its backing array) interleave,    *)
(* one step each.                                                          *)
(***************************************************************************)
\* The backing array of v.entities: the slice's elements and those behind
\* its length.
Spare(v) == IF v \in DOMAIN backing THEN backing[v] ELSE <<>>

Array(v) == manager.views[v].entities \o Spare(v)

\* component.destructor(entity, data)
invokeDestructor(h, e, c, data) ==
    [h EXCEPT !.destructed = Append(@, [e |-> e, c |-> c, data |-> data])]

\* Another thread holds c's datalock for writing and is about to execute
\* delete(component.data, entity.ID) on a map that has entries: a map access
\* made now may find the map's writing flag set (a delete on an empty map
\* returns before it sets the flag).
Deleting(t, c) ==
    \E u \in Threads \ {t} :
        /\ At(u, "RemoveComponent:delete")
        /\ threads[u].c = c
        /\ DataLock(c).w = u /\ NoReaders(DataLock(c))
        /\ component[c].data # EmptyMap

\* The delete the other thread is about to execute removes e's own entry: a
\* read of that entry made now may find the key still there and the value,
\* an interface of two words, already cleared in full or in its second word.
Tearing(t, e, c) ==
    \E u \in Threads \ {t} :
        /\ At(u, "RemoveComponent:delete")
        /\ threads[u].c = c /\ threads[u].e = e
        /\ DataLock(c).w = u /\ NoReaders(DataLock(c))
        /\ e \in DOMAIN component[c].data

\* if component.destructor != nil { data, ok := component.data[entity.ID]:
\* the map is read without a lock.  A read that meets another thread's delete
\* ends the program with the runtime's fatal error, or is ordered before or
\* after the delete, or is torn: ok = true, and data is nil (both words read
\* after the delete cleared them) or a non-nil interface with a nil data word
\* (the type word read before, the data word after).
DetDestructorRead(t) ==
    /\ Running /\ At(t, "idle")
    /\ \E e \in Handles, c \in Registered :
          \/ /\ ~component[c].destructor
             /\ threads' = [threads EXCEPT ![t].pc = "RemoveComponent:lock",
                                           ![t].e = e, ![t].c = c]
             /\ UNCHANGED fault
          \/ /\ component[c].destructor
             /\ LET got == GetComponentData(Heap, e, c)
                IN  threads' = [threads EXCEPT
                        ![t].pc = IF got.ok THEN "RemoveComponent:destructor"
                                  ELSE "RemoveComponent:lock",
                        ![t].e = e, ![t].c = c,
                        ![t].found = got.ok,
                        ![t].p = IF got.ok THEN got.data ELSE NoArg]
             /\ UNCHANGED fault
          \/ /\ component[c].destructor
             /\ Deleting(t, c)
             /\ fault' = "concurrent map read and map write"
             /\ UNCHANGED threads
          \/ /\ component[c].destructor
             /\ Tearing(t, e, c)
             /\ \E torn \in {NilData, HalfData} :
                    threads' = [threads EXCEPT
                        ![t].pc = "RemoveComponent:destructor",
                        ![t].e = e, ![t].c = c,
                        ![t].found = TRUE, ![t].p = torn]
             /\ UNCHANGED fault
    /\ UNCHANGED <<manager, component, entity, destructed, last, locks, ghost,
                   backing>>

\* if ok { component.destructor(entity, data) }: the call, with the payload
\* read before.
DetDestructorCall(t) ==
    /\ Running /\ At(t, "RemoveComponent:destructor")
    /\ Commit(invokeDestructor(Heap, threads[t].e, threads[t].c, threads[t].p))
    /\ threads' = Goto(t, "RemoveComponent:lock")
    /\ UNCHANGED <<last, locks, ghost, backing>>

\* component.datalock.Lock(): new readers are excluded from here on.
DetLock(t) ==
    /\ Running /\ At(t, "RemoveComponent:lock")
    /\ DataLock(threads[t].c).w = 0
    /\ locks' = SetDataLock(threads[t].c, [DataLock(threads[t].c) EXCEPT !.w = t])
    /\ threads' = Goto(t, "RemoveComponent:delete")
    /\ UNCHANGED <<manager, component, entity, fault, destructed, last, ghost,
                   backing>>

\* The readers have left: delete(component.data, entity.ID)
DetDelete(t) ==
    /\ Running /\ At(t, "RemoveComponent:delete")
    /\ NoReaders(DataLock(threads[t].c))
    /\ Commit(deleteData(Heap, threads[t].e, threads[t].c))
    /\ threads' = Goto(t, "RemoveComponent:tagbefore")
    /\ UNCHANGED <<last, locks, ghost, backing>>

\* tagbefore := entity.tag
DetTagBefore(t) ==
    /\ Running /\ At(t, "RemoveComponent:tagbefore")
    /\ threads' = [threads EXCEPT ![t].pc = "RemoveComponent:not",
                                  ![t].tagbefore = entity[threads[t].e].tag]
    /\ UNCHANGED <<manager, component, entity, fault, destructed, last, locks,
                   ghost, backing>>

\* tag.flags ^= othertag.flags: the load
DetNotRead(t) ==
    /\ Running /\ At(t, "RemoveComponent:not")
    /\ threads' = [threads EXCEPT ![t].pc = "RemoveComponent:notwrite",
                                  ![t].flags = entity[threads[t].e].tag.flags]
    /\ UNCHANGED <<manager, component, entity, fault, destructed, last, locks,
                   ghost, backing>>

\* tag.flags ^= othertag.flags: the store of the loaded value with the bit
\* flipped
DetNotWrite(t) ==
    /\ Running /\ At(t, "RemoveComponent:notwrite")
    /\ Commit(notTag([Heap EXCEPT !.entity[threads[t].e].tag.flags = threads[t].flags],
                     threads[t].e, threads[t].c))
    /\ threads' = Goto(t, "RemoveComponent:range")
    /\ UNCHANGED <<last, locks, ghost, backing>>

\* range entity.manager.views: the slice is read once
DetRange(t) ==
    /\ Running /\ At(t, "RemoveComponent:range")
    /\ threads' = [threads EXCEPT ![t].pc = "RemoveComponent:view",
                                  ![t].views = Len(manager.views), ![t].v = 1]
    /\ UNCHANGED <<manager, component, entity, fault, destructed, last, locks,
                   ghost, backing>>

\* One iteration: the edge test, which reads entity.tag again.
DetView(t) ==
    /\ Running /\ At(t, "RemoveComponent:view")
    /\ LET v == threads[t].v
           e == threads[t].e
       IN  threads' =
             IF v > threads[t].views THEN Goto(t, "RemoveComponent:unlock")
             ELSE IF matches(threads[t].tagbefore, manager.views[v].tag)
                     /\ ~matches(entity[e].tag, manager.views[v].tag)
                  THEN Goto(t, "remove:rlock")
                  ELSE [threads EXCEPT ![t].v = v + 1]
    /\ UNCHANGED <<manager, component, entity, fault, destructed, last, locks,
                   ghost, backing>>

\* View.remove: v.lock.RLock() and range v.entities, which reads the slice
\* header once.
ViewRemoveRLock(t) ==
    /\ Running /\ At(t, "remove:rlock")
    /\ ViewLock(threads[t].v).w = 0
    /\ locks' = SetViewLock(threads[t].v,
                            [ViewLock(threads[t].v) EXCEPT !.r[t] = @ + 1])
    /\ threads' = [threads EXCEPT ![t].pc = "remove:scan", ![t].i = 1,
                      ![t].n = Len(manager.views[threads[t].v].entities)]
    /\ UNCHANGED <<manager, component, entity, fault, destructed, last, ghost,
                   backing>>

\* One iteration of the scan: the element is loaded from the backing array
\* and qr.Entity.ID compared; a nil element panics.
ViewRemoveScan(t) ==
    /\ Running /\ At(t, "remove:scan")
    /\ LET i == threads[t].i
           qr == Array(threads[t].v)[i]
       IN  IF i > threads[t].n
           THEN threads' = Goto(t, "remove:runlock") /\ UNCHANGED fault
           ELSE IF qr.nil
           THEN fault' = "nil dereference" /\ UNCHANGED threads
           ELSE /\ threads' = IF qr.Entity = threads[t].e
                              THEN Goto(t, "remove:maxbound")
                              ELSE [threads EXCEPT ![t].i = i + 1]
                /\ UNCHANGED fault
    /\ UNCHANGED <<manager, component, entity, destructed, last, locks, ghost,
                   backing>>

\* maxbound := len(v.entities) - 1
ViewRemoveMaxbound(t) ==
    /\ Running /\ At(t, "remove:maxbound")
    /\ threads' = [threads EXCEPT ![t].pc = "remove:swap",
                      ![t].maxbound = Len(manager.views[threads[t].v].entities) - 1]
    /\ UNCHANGED <<manager, component, entity, fault, destructed, last, locks,
                   ghost, backing>>

\* v.entities[maxbound], v.entities[i] = v.entities[i], v.entities[maxbound]:
\* two loads, then two stores, each a step of its own (the view's lock is held
\* for reading only).  A load checks its index against the length the slice
\* has at that moment.  The slice operand of both index expressions on the left
\* is evaluated once, before the first store: both stores check their index
\* against that length (bound) and write into the backing array, the second
\* possibly behind the length the slice has by then.  The thread's i counts
\* from 1, maxbound from 0 as in the source.  The order of the two loads is
\* the compiler's: v.entities[i] first, or v.entities[maxbound] first (a build
\* without optimisation or with the race detector); it is the same in every
\* call of the program.
InRange(v, k) == k >= 1 /\ k <= Len(manager.views[v].entities)

\* The program's build may load in this order: no call has loaded in the other.
LoadOrder(order) == \A u \in Threads : threads[u].order \in {"none", order}

\* the load of v.entities[i]
ViewRemoveLoadI(t) ==
    /\ Running
    /\ \/ At(t, "remove:swap") /\ LoadOrder("i")
       \/ At(t, "remove:loadi")
    /\ LET v == threads[t].v
           i == threads[t].i
       IN  IF ~InRange(v, i)
           THEN fault' = "index out of range" /\ UNCHANGED threads
           ELSE /\ threads' = [threads EXCEPT
                      ![t].pc = IF At(t, "remove:swap") THEN "remove:loadmax"
                                ELSE "remove:storemax",
                      ![t].order = IF At(t, "remove:swap") THEN "i" ELSE @,
                      ![t].atI = manager.views[v].entities[i]]
                /\ UNCHANGED fault
    /\ UNCHANGED <<manager, component, entity, destructed, last, locks, ghost,
                   backing>>

\* the load of v.entities[maxbound]
ViewRemoveLoadMax(t) ==
    /\ Running
    /\ \/ At(t, "remove:swap") /\ LoadOrder("maxbound")
       \/ At(t, "remove:loadmax")
    /\ LET v == threads[t].v
           m == threads[t].maxbound + 1
       IN  IF ~InRange(v, m)
           THEN fault' = "index out of range" /\ UNCHANGED threads
           ELSE /\ threads' = [threads EXCEPT
                      ![t].pc = IF At(t, "remove:swap") THEN "remove:loadi"
                                ELSE "remove:storemax",
                      ![t].order = IF At(t, "remove:swap") THEN "maxbound"
                                   ELSE @,
                      ![t].atMax = manager.views[v].entities[m]]
                /\ UNCHANGED fault
    /\ UNCHANGED <<manager, component, entity, destructed, last, locks, ghost,
                   backing>>

\* The array behind v.entities with element k replaced: the element is in the
\* slice or behind its length.
StoreAt(v, k, qr) ==
    LET n == Len(manager.views[v].entities)
    IN  IF k <= n
        THEN [entities |-> [manager.views[v].entities EXCEPT ![k] = qr],
              spare |-> Spare(v)]
        ELSE [entities |-> manager.views[v].entities,
              spare |-> [Spare(v) EXCEPT ![k - n] = qr]]

\* the store v.entities[maxbound] = (the value loaded from v.entities[i])
ViewRemoveStoreMax(t) ==
    /\ Running /\ At(t, "remove:storemax")
    /\ LET v == threads[t].v
           m == threads[t].maxbound + 1
       IN  IF ~InRange(v, m)
           THEN /\ fault' = "index out of range"
                /\ UNCHANGED <<manager, threads>>
           ELSE /\ manager' = [manager EXCEPT !.views[v].entities[m] =
                                  threads[t].atI]
                /\ threads' = [threads EXCEPT ![t].pc = "remove:storei",
                                  ![t].bound = Len(manager.views[v].entities)]
                /\ UNCHANGED fault
    /\ UNCHANGED <<component, entity, destructed, last, locks, ghost, backing>>

\* the store v.entities[i] = (the value loaded from v.entities[maxbound])
ViewRemoveStoreI(t) ==
    /\ Running /\ At(t, "remove:storei")
    /\ LET v == threads[t].v
           i == threads[t].i
           stored == StoreAt(v, i, threads[t].atMax)
       IN  IF i < 1 \/ i > threads[t].bound
           THEN /\ fault' = "index out of range"
                /\ UNCHANGED <<manager, threads, backing>>
           ELSE /\ manager' = [manager EXCEPT !.views[v].entities =
                                  stored.entities]
                /\ backing' = IF stored.spare = Spare(v) THEN backing
                              ELSE extend(backing, v, stored.spare)
                /\ threads' = Goto(t, "remove:truncate")
                /\ UNCHANGED fault
    /\ UNCHANGED <<component, entity, destructed, last, locks, ghost>>

\* v.entities = v.entities[:maxbound]: the new length may be below or above
\* the length the slice has now; the backing array stays.
ViewRemoveTruncate(t) ==
    /\ Running /\ At(t, "remove:truncate")
    /\ LET v == threads[t].v
           array == Array(v)
           m == threads[t].maxbound
       IN  /\ manager' = [manager EXCEPT !.views[v].entities = SubSeq(array, 1, m)]
           /\ backing' = extend(backing, v, SubSeq(array, m + 1, Len(array)))
    /\ threads' = Goto(t, "remove:runlock")
    /\ UNCHANGED <<component, entity, fault, destructed, last, locks, ghost>>

\* View.remove: v.lock.RUnlock() after the loop
ViewRemoveRUnlock(t) ==
    /\ Running /\ At(t, "remove:runlock")
    /\ locks' = SetViewLock(threads[t].v,
                            [ViewLock(threads[t].v) EXCEPT !.r[t] = @ - 1])
    /\ threads' = [threads EXCEPT ![t].pc = "RemoveComponent:view",
                                  ![t].v = threads[t].v + 1]
    /\ UNCHANGED <<manager, component, entity, fault, destructed, last, ghost,
                   backing>>

\* component.datalock.Unlock() and the return
DetUnlock(t) ==
    /\ Running /\ At(t, "RemoveComponent:unlock")
    /\ locks' = SetDataLock(threads[t].c, [DataLock(threads[t].c) EXCEPT !.w = 0])
    /\ threads' = Goto(t, "done")
    /\ last' = [op |-> "RemoveComponent", e |-> threads[t].e, c |-> threads[t].c,
                p |-> NoArg, hadBit |-> FALSE, hadData |-> FALSE,
                old |-> NilData]
    /\ UNCHANGED <<manager, component, entity, fault, destructed, ghost,
                   backing>>

DetNext ==
    \E t \in Threads :
        \/ DetDestructorRead(t)
        \/ DetLock(t)
        \/ DetDelete(t)
        \/ DetTagBefore(t)
        \/ DetNotRead(t)
        \/ DetNotWrite(t)
        \/ DetRange(t)
        \/ DetView(t)
        \/ ViewRemoveRLock(t)
        \/ ViewRemoveScan(t)
        \/ ViewRemoveMaxbound(t)
        \/ ViewRemoveLoadI(t)
        \/ ViewRemoveLoadMax(t)
        \/ ViewRemoveStoreMax(t)
        \/ ViewRemoveStoreI(t)
        \/ ViewRemoveTruncate(t)
        \/ ViewRemoveRUnlock(t)
        \/ DetUnlock(t)

SpecDetach == AttInit /\ [][DetNext]_vars

(***************************************************************************)
(* The same RemoveComponent calls on a manager whose components all have a *)
(* destructor: the setup is followed by SetDestructor on every component.  *)
(***************************************************************************)
RECURSIVE setDestructors(_, _)
setDestructors(h, i) ==
    IF i > Len(h.manager.components) THEN h
    ELSE setDestructors(doSetDestructor(h, h.manager.components[i]), i + 1)

DestructInit ==
    /\ \E held \in SUBSET (AttEnts \X AttComps), flags \in SUBSET AttComps :
          LET h == setDestructors(
                       applyAll(EmptyHeap, SetupCalls(held, flags), 1), 1)
          IN  /\ manager = h.manager
              /\ component = h.component
              /\ entity = h.entity
              /\ fault = h.fault
              /\ destructed = h.destructed
    /\ last = [op |-> "SetDestructor", e |-> NoArg, c |-> NoArg, p |-> NoArg,
               hadBit |-> FALSE, hadData |-> FALSE, old |-> NilData]
    /\ InitThreads

\* With a destructor set the call between the unlocked read and the Lock is a
\* step of its own.
DestructNext ==
    \/ DetNext
    \/ \E t \in Threads : DetDestructorCall(t)

SpecDestruct == DestructInit /\ [][DestructNext]_vars

(***************************************************************************)
(* Concurrent NewEntity, NewComponent and DisposeEntity calls on a manager *)
(* on which one thread has registered OverflowLimit - 1 components: the    *)
(* next NewComponent call is the last that passes the limit check.         *)
(***************************************************************************)
RECURSIVE registerAll(_, _)
\* n NewComponent calls in a row; a call that registers nothing (it panicked)
\* ends the setup.
registerAll(h, n) ==
    IF n = 0 THEN h
    ELSE LET h1 == doNewComponent(h)
         IN  IF /\ Len(h1.manager.components) > Len(h.manager.components)
                /\ DOMAIN h1.component # DOMAIN h.component
             THEN registerAll(h1, n - 1)
             ELSE h1

LimitInit ==
    /\ LET h == registerAll(EmptyHeap, OverflowLimit - 1)
       IN  /\ manager = h.manager
           /\ component = h.component
           /\ entity = h.entity
           /\ fault = h.fault
           /\ destructed = h.destructed
    /\ last = [op |-> "NewComponent", e |-> NoArg, c |-> OverflowLimit - 2,
               p |-> NoArg, hadBit |-> FALSE, hadData |-> FALSE,
               old |-> NilData]
    /\ InitThreads

SpecLimit == LimitInit /\ [][IdsNext]_vars

(***************************************************************************)
(* The Tag functions on their own, on a manager with TagComponents         *)
(* registered components.  The initial state holds in last the arguments   *)
(* of one call, drawn from all tags and element lists over the registered  *)
(* bits; the step makes the call and stores what it returned.              *)
(***************************************************************************)
TagHeap ==
    applyAll(EmptyHeap,
             [i \in 1..TagComponents |->
                 SetupCall(1, NoArg, NoArg, NoArg, EmptyTag)], 1)

TagInit ==
    /\ manager = TagHeap.manager
    /\ component = TagHeap.component
    /\ entity = TagHeap.entity
    /\ fault = TagHeap.fault
    /\ destructed = TagHeap.destructed
    /\ \/ \E tag \in AllTags, flags \in SUBSET Registered, value \in BOOLEAN :
             last = [op |-> "call matches", tag |-> tag, flags |-> flags,
                     value |-> value]
       \/ \E elements \in ElementLists :
             last = [op |-> "call BuildTag", elements |-> elements]
       \/ \E a \in ElementLists, b \in ElementLists :
             last = [op |-> "call BuildTag(BuildTag, BuildTag)",
                     a |-> a, b |-> b]
    /\ InitThreads

\* tag.matches(smallertag), smallertag made by Inverse(value) from the
\* positive tag of the flags.
TagMatches ==
    /\ last.op = "call matches"
    /\ LET smallertag == Inverse([flags |-> last.flags, inverse |-> FALSE],
                                 last.value)
       IN  last' = [op |-> "matches", tag |-> last.tag,
                    smallertag |-> smallertag,
                    res |-> matches(last.tag, smallertag)]
    /\ UNCHANGED <<manager, component, entity, fault, destructed, threads,
                   locks, ghost, backing>>

\* BuildTag(elements...)
TagBuildTag ==
    /\ last.op = "call BuildTag"
    /\ last' = [op |-> "BuildTag", elements |-> last.elements,
                res |-> BuildTag(Heap, last.elements)]
    /\ UNCHANGED <<manager, component, entity, fault, destructed, threads,
                   locks, ghost, backing>>

\* BuildTag(BuildTag(a...), BuildTag(b...))
TagBuildNested ==
    /\ last.op = "call BuildTag(BuildTag, BuildTag)"
    /\ last' = [op |-> "BuildTag(BuildTag, BuildTag)", a |-> last.a,
                b |-> last.b,
                res |-> BuildTag(Heap, <<TagElement(BuildTag(Heap, last.a)),
                                          TagElement(BuildTag(Heap, last.b))>>)]
    /\ UNCHANGED <<manager, component, entity, fault, destructed, threads,
                   locks, ghost, backing>>

TagNext == TagMatches \/ TagBuildTag \/ TagBuildNested

SpecTag == TagInit /\ [][TagNext]_vars

(***************************************************************************)
(* Observations used by the properties.                                    *)
(***************************************************************************)
Returned(name) == last.op = name /\ fault = "none"

\* The entity IDs of a collection; a nil entry has no entity.
IdsOf(coll) == {coll[i].Entity : i \in {j \in DOMAIN coll : ~coll[j].nil}}

HasNil(coll) == \E i \in DOMAIN coll : coll[i].nil

Views == DOMAIN manager.views

(***************************************************************************)
(* C1: in every state of a sequential execution, for every entity e and    *)
(* registered component c, c's bit is set in e's signature iff c's payload *)
(* map holds an entry for e's ID.                                          *)
(***************************************************************************)
C1_SignatureIffPayload ==
    \A e \in Handles, c \in Registered :
        (component[c].tag.flags \subseteq entity[e].tag.flags)
            <=> (e \in DOMAIN component[c].data)

(***************************************************************************)
(* C2: after every completed AddComponent, RemoveComponent or              *)
(* DisposeEntity, the entity IDs of each view v are exactly the entity IDs *)
(* of Manager.Query(v.tag).                                                *)
(***************************************************************************)
C2_ViewEqualsQuery ==
    (Returned("AddComponent") \/ Returned("RemoveComponent")
        \/ Returned("DisposeEntity"))
    => \A v \in Views :
          /\ ~HasNil(Get(Heap, v))
          /\ IdsOf(Get(Heap, v)) = IdsOf(Query(Heap, manager.views[v].tag))

(***************************************************************************)
(* C3: after DisposeEntity(e) has returned, e is in no view and in the     *)
(* result of Query(s) for no signature s, the empty and the inverse        *)
(* signatures included.                                                    *)
(***************************************************************************)
C3_DisposedNowhere ==
    Returned("DisposeEntity")
    => /\ \A v \in Views : last.e \notin IdsOf(Get(Heap, v))
       /\ \A s \in AllTags : last.e \notin IdsOf(Query(Heap, s))

(***************************************************************************)
(* C4: immediately after e.AddComponent(c, p) returns, e.HasComponent(c)   *)
(* is true and e.GetComponentData(c) is (p, true), whether or not e held c *)
(* with another payload before.                                            *)
(***************************************************************************)
C4_AddThenHas ==
    Returned("AddComponent")
    => /\ HasComponent(Heap, last.e, last.c)
       /\ GetComponentData(Heap, last.e, last.c) = [data |-> last.p, ok |-> TRUE]

\* An AddComponent that overwrote another payload of a held component.
C4_Witness ==
    /\ Returned("AddComponent")
    /\ last.hadBit /\ last.hadData /\ last.old # last.p
    /\ GetComponentData(Heap, last.e, last.c).data = last.p

(***************************************************************************)
(* C5: immediately after e.RemoveComponent(c) returns, whether e held c or *)
(* not, e.HasComponent(c) is false and e.GetComponentData(c) reports not   *)
(* found.                                                                  *)
(***************************************************************************)
C5_RemoveThenHasNot ==
    Returned("RemoveComponent")
    => /\ ~HasComponent(Heap, last.e, last.c)
       /\ ~GetComponentData(Heap, last.e, last.c).ok

(***************************************************************************)
(* C6: RemoveComponent(c) on an entity that does not hold c is a no-op:    *)
(* the signatures, the payload maps and the views are unchanged and the    *)
(* destructor of c is not invoked.                                         *)
(***************************************************************************)
C6_RemoveAbsentNoOp ==
    [][(last'.op = "RemoveComponent" /\ ~last'.hadBit /\ ~last'.hadData)
        => /\ entity' = entity
           /\ component' = component
           /\ manager' = manager
           /\ fault' = "none"
           /\ destructed' = <<>>]_vars

(***************************************************************************)
(* C7: on a manager on which only NewComponent is called, the first 64     *)
(* calls succeed and return components with pairwise distinct single bits, *)
(* and the 65th call fails with the overflow without registering a         *)
(* component.                                                              *)
(***************************************************************************)
MaxRegistered == 64

C7_SixtyFourThenOverflow ==
    manager.entities = <<>>
    => /\ Len(manager.components) <= MaxRegistered
       /\ fault = "Component overflow"
             => Len(manager.components) = MaxRegistered
       /\ \A c \in Registered : Cardinality(component[c].tag.flags) = 1
       /\ \A c, d \in Registered :
             c # d => component[c].tag.flags # component[d].tag.flags

(***************************************************************************)
(* C8: component IDs are 0-based and dense: the k-th successful            *)
(* NewComponent call returns the component with ID k-1 and signature bit   *)
(* k-1, however many entities were created before or between.              *)
(***************************************************************************)
C8_DenseComponentIds ==
    \A k \in DOMAIN manager.components :
        /\ component[manager.components[k]].id = k - 1
        /\ component[manager.components[k]].tag.flags = {k - 1}

(***************************************************************************)
(* C9: entity IDs are unique and strictly increasing in the order they are *)
(* assigned, under any interleaving of concurrent NewEntity, NewComponent  *)
(* and DisposeEntity calls: no two NewEntity calls obtain the same ID, the *)
(* entity list holds no ID twice, and the ID of a disposed entity is never *)
(* assigned (and registered) again.                                        *)
(***************************************************************************)
C9_UniqueEntityIds ==
    /\ \A i, j \in DOMAIN ghost.issued :
          i < j => ghost.issued[i] < ghost.issued[j]
    /\ \A i, j \in DOMAIN manager.entities :
          i # j => manager.entities[i] # manager.entities[j]
    /\ ghost.disposed \cap manager.entitiesByID = {}

\* Two NewEntity calls that overlapped registered in the reverse of the order
\* of their IDs, a component was registered, and an ID was assigned after a
\* disposal.
C9_Witness ==
    /\ \A t \in Threads : At(t, "idle")
    /\ ghost.afterDispose
    /\ manager.components # <<>>
    /\ \E i, j \in DOMAIN manager.entities :
          i < j /\ manager.entities[i] > manager.entities[j]

(***************************************************************************)
(* C10: when the threads concurrently call AddComponent, each with a       *)
(* different component and a different entity, then after all calls have   *)
(* returned every attached payload is retrievable with GetComponentData    *)
(* and every entity's signature is the OR of the bits of the components    *)
(* attached to it, in every interleaving.                                  *)
(***************************************************************************)
AllDone == \A t \in Threads : At(t, "done")

DifferentTargets ==
    \A t, u \in Threads :
        t # u => threads[t].e # threads[u].e /\ threads[t].c # threads[u].c

AttachedBits(e) ==
    UNION {component[c].tag.flags :
              c \in {d \in Registered : e \in DOMAIN component[d].data}}

C10_NoLostAttach ==
    (AllDone /\ DifferentTargets)
    => /\ \A t \in Threads :
             GetComponentData(Heap, threads[t].e, threads[t].c)
                 = [data |-> threads[t].p, ok |-> TRUE]
       /\ \A e \in Handles : entity[e].tag.flags = AttachedBits(e)

\* All calls returned, on different entities and components; one of the
\* entities held another component before, and the view gained an entity.
C10_Witness ==
    /\ AllDone /\ DifferentTargets
    /\ \E t \in Threads : Cardinality(entity[threads[t].e].tag.flags) > 1
    /\ \E t \in Threads, v \in Views :
          manager.views[v].tag.flags # {}
          /\ threads[t].e \in IdsOf(manager.views[v].entities)

(***************************************************************************)
(* C11: no interleaving of concurrently running calls reaches a deadlock:  *)
(* while a started call has not returned, some thread can take a step      *)
(* (every lock a call waits for is released by a call that can proceed).   *)
(***************************************************************************)
Started(t) == ~At(t, "idle") /\ ~At(t, "done")

C11_NoDeadlock ==
    (Running /\ \E t \in Threads : Started(t)) => ENABLED AttNext

(***************************************************************************)
(* C12: when an AddComponent or RemoveComponent call returns while the     *)
(* other threads run such calls on other entities, every view registered   *)
(* before the call whose match state for the entity changed by the call    *)
(* reflects the change: the entity is in the view after a transition into  *)
(* matching and not in it after a transition out of matching.              *)
(***************************************************************************)
\* Thread t returns in this step and no other thread's call is on its entity.
ReturnsAlone(t) ==
    /\ threads[t].pc # "done" /\ threads'[t].pc = "done"
    /\ \A u \in Threads : u # t => threads'[u].e # threads[t].e

C12_ViewReflectsOnReturn ==
    [][\A t \in Threads :
          ReturnsAlone(t)
          => \A v \in Views :
                LET tag == manager.views[v].tag
                    before == matches(threads[t].tagbefore, tag)
                    after == matches(entity'[threads[t].e].tag, tag)
                    ids == IdsOf(manager'.views[v].entities)
                IN  /\ (~before /\ after) => threads[t].e \in ids
                    /\ (before /\ ~after) => threads[t].e \notin ids
      ]_vars

(***************************************************************************)
(* C13: for every positive signature s, Query(s) holds exactly one result  *)
(* for each entity whose signature contains every bit of s and none for    *)
(* any other entity, and each result's map has as keys exactly the         *)
(* registered components whose bit is in s, each mapped to the payload     *)
(* stored for that entity.                                                 *)
(***************************************************************************)
PositiveTags == {s \in AllTags : ~s.inverse}

ResultsFor(coll, e) == {i \in DOMAIN coll : ~coll[i].nil /\ coll[i].Entity = e}

KeysOf(s) == {c \in Registered : component[c].tag.flags \subseteq s.flags}

C13_QueryExact ==
    \A s \in PositiveTags :
        LET coll == Query(Heap, s)
        IN  /\ ~HasNil(coll)
            /\ \A e \in Handles :
                  Cardinality(ResultsFor(coll, e))
                      = IF s.flags \subseteq entity[e].tag.flags THEN 1 ELSE 0
            /\ \A i \in DOMAIN coll :
                  /\ coll[i].Entity \in Handles
                  /\ DOMAIN coll[i].Components = KeysOf(s)
                  /\ \A c \in KeysOf(s) :
                        /\ coll[i].Entity \in DOMAIN component[c].data
                        /\ coll[i].Components[c]
                               = component[c].data[coll[i].Entity]

(***************************************************************************)
(* C14: GetEntityByID(id, s) returns a result iff id belongs to an entity  *)
(* that was created and not disposed, whose signature satisfies s, and for *)
(* which every component of s has a stored payload; otherwise it returns   *)
(* nil.  Stated for every signature s, passed as the one Tag element.      *)
(***************************************************************************)
\* Every value a caller can pass as an ID.
AnyId == 0..MaxIds

Satisfies(tag, s) ==
    IF s.inverse THEN ~(s.flags \subseteq tag.flags)
    ELSE s.flags \subseteq tag.flags

Live(id) == id \in Handles /\ id \in manager.entitiesByID

\* The components of a set of bits that have no payload for the entity.
Unstored(id, flags) ==
    {c \in Registered : component[c].tag.flags \subseteq flags
                            /\ id \notin DOMAIN component[c].data}

C14_ResultIffSatisfies ==
    \A id \in AnyId, s \in AllTags :
        ~GetEntityByID(Heap, id, <<TagElement(s)>>).nil
            <=> /\ Live(id)
                /\ Satisfies(entity[id].tag, s)
                /\ Unstored(id, s.flags) = {}

(***************************************************************************)
(* C14, amended: GetEntityByID(id, elements...) returns a result iff id    *)
(* belongs to an entity that was created and not disposed, whose signature *)
(* contains every bit of the elements (a Tag element counts with its bits, *)
(* inverse or not), and for which every component of these bits has a      *)
(* stored payload; the result then carries id and exactly these payloads.  *)
(***************************************************************************)
BitsOf(elements) ==
    UNION {IF elements[i].kind = "component"
           THEN component[elements[i].id].tag.flags
           ELSE elements[i].tag.flags : i \in DOMAIN elements}

C14_ResultIffContains ==
    \A id \in AnyId, elements \in ElementLists :
        LET qr == GetEntityByID(Heap, id, elements)
            found == /\ Live(id)
                     /\ BitsOf(elements) \subseteq entity[id].tag.flags
                     /\ Unstored(id, BitsOf(elements)) = {}
        IN  /\ ~qr.nil <=> found
            /\ ~qr.nil =>
                  /\ qr.Entity = id
                  /\ qr.Components =
                        [c \in {d \in Registered :
                                   component[d].tag.flags \subseteq BitsOf(elements)}
                            |-> component[c].data[id]]

\* One entity for which one lookup finds the payload, and another lookup
\* returns nil because a bit of the signature has no payload; a lookup with
\* an ID that belongs to no entity.
C14_Witness ==
    \E id \in Handles, c, d \in Registered :
        /\ c # d /\ Live(id)
        /\ ~GetEntityByID(Heap, id, <<ComponentElement(c)>>).nil
        /\ HasComponent(Heap, id, d)
        /\ Unstored(id, component[d].tag.flags) = {d}
        /\ GetEntityByID(Heap, id, <<ComponentElement(d)>>).nil
        /\ \E x \in AnyId : x \notin Handles
                               /\ GetEntityByID(Heap, x, <<>>).nil

(***************************************************************************)
(* C15: for a candidate signature c and a required signature r over the    *)
(* registered bits, matches(c, r) is, for a positive r, true iff every bit *)
(* of r is set in c and, for an inverse r, true iff c lacks at least one   *)
(* bit of r.                                                               *)
(***************************************************************************)
C15_MatchesIsNegation ==
    last.op = "matches"
    => last.res = IF last.smallertag.inverse
                  THEN \E b \in last.smallertag.flags : b \notin last.tag.flags
                  ELSE \A b \in last.smallertag.flags : b \in last.tag.flags

\* An inverse tag of two bits matched a candidate that has one of them.
C15_Witness ==
    /\ last.op = "matches"
    /\ last.smallertag.inverse
    /\ Cardinality(last.smallertag.flags) = 2
    /\ Cardinality(last.smallertag.flags \cap last.tag.flags) = 1
    /\ last.res

(***************************************************************************)
(* C16: BuildTag returns the OR of the bits of all its Component and Tag   *)
(* elements and its result is never inverse, also for an inverse Tag       *)
(* element; the result is the same for every list with the same elements   *)
(* in another order or repeated, and BuildTag(BuildTag(a), BuildTag(b))    *)
(* equals BuildTag(a, b).                                                  *)
(***************************************************************************)
C16_BuildTagIsOr ==
    /\ last.op = "BuildTag"
       => /\ last.res = [flags |-> BitsOf(last.elements), inverse |-> FALSE]
          /\ \A other \in ElementLists :
                Range(other) = Range(last.elements)
                    => BuildTag(Heap, other) = last.res
    /\ last.op = "BuildTag(BuildTag, BuildTag)"
       => last.res = BuildTag(Heap, last.a \o last.b)

\* BuildTag of the results of two BuildTag calls, one of them of an inverse
\* Tag, the other of a Component, with different bits.
C16_Witness ==
    /\ last.op = "BuildTag(BuildTag, BuildTag)"
    /\ \E i \in DOMAIN last.a :
          /\ last.a[i].kind = "tag" /\ last.a[i].tag.inverse
          /\ last.a[i].tag.flags # {}
    /\ \E i \in DOMAIN last.b :
          /\ last.b[i].kind = "component"
          /\ ~(component[last.b[i].id].tag.flags \subseteq BitsOf(last.a))
    /\ Cardinality(last.res.flags) = 2

(***************************************************************************)
(* C17: every RemoveComponent(c) and every DisposeEntity invokes, for the  *)
(* entity e of the call and every component c concerned (the one removed;  *)
(* every registered one on disposal), the destructor of c exactly once     *)
(* with the payload stored for e when c has a destructor and e holds a     *)
(* payload for c, and not at all otherwise; no other destructor call is    *)
(* made.                                                                   *)
(***************************************************************************)
\* The destructor calls due for entity e and the components of cs, from the
\* state before the call.
DueCalls(e, cs) ==
    {[e |-> e, c |-> c, data |-> component[c].data[e]] :
        c \in {d \in cs : component[d].destructor /\ e \in DOMAIN component[d].data}}

C17_DestructorOnce ==
    [][/\ last'.op = "RemoveComponent"
          => /\ Range(destructed') = DueCalls(last'.e, {last'.c})
             /\ Len(destructed') = Cardinality(DueCalls(last'.e, {last'.c}))
       /\ last'.op = "DisposeEntity"
          => /\ Range(destructed') = DueCalls(last'.e, Registered)
             /\ Len(destructed') = Cardinality(DueCalls(last'.e, Registered))
      ]_vars

(***************************************************************************)
(* C18: DisposeEntities(e1, ..., en) disposes every listed entity, and an  *)
(* entity of the list that is already disposed, or listed before, is a     *)
(* no-op: the call does what the disposal of the not yet disposed entities *)
(* of the list, each once, does, with the same destructor calls, and when  *)
(* it returns no listed entity is left in the index.                       *)
(***************************************************************************)
\* The entities of the list not disposed before the call, each at its first
\* place.
RECURSIVE LiveOnce(_, _)
LiveOnce(entities, i) ==
    IF i > Len(entities) THEN <<>>
    ELSE IF entities[i] \in manager.entitiesByID
            /\ \A j \in 1..(i - 1) : entities[j] # entities[i]
         THEN <<entities[i]>> \o LiveOnce(entities, i + 1)
         ELSE LiveOnce(entities, i + 1)

C18_DisposedListedNoOp ==
    [][last'.op = "DisposeEntities"
        => /\ [manager |-> manager', component |-> component',
               entity |-> entity', fault |-> fault', destructed |-> destructed']
                  = doDisposeEntities(Call, LiveOnce(last'.list, 1))
           /\ fault' = "none"
                 => \A i \in DOMAIN last'.list :
                       last'.list[i] \notin manager'.entitiesByID
      ]_vars

(***************************************************************************)
(* C19: after DisposeEntity(e) has returned in a sequential execution, e's *)
(* signature is empty, no component's payload map holds an entry for e's   *)
(* ID, and GetEntityByID(e.ID, s) returns nil for every signature s.       *)
(***************************************************************************)
C19_DisposedIsEmpty ==
    Returned("DisposeEntity")
    => /\ entity[last.e].tag.flags = {}
       /\ \A c \in Registered : last.e \notin DOMAIN component[c].data
       /\ \A elements \in ElementLists :
             GetEntityByID(Heap, last.e, elements).nil

\* The disposed entity held a payload of a component that a view selects,
\* and another component is registered.
C19_Witness ==
    /\ Returned("DisposeEntity")
    /\ \E i \in DOMAIN destructed, v \in Views :
          /\ destructed[i].e = last.e
          /\ manager.views[v].tag.flags = component[destructed[i].c].tag.flags
    /\ Cardinality(Registered) = 2

(***************************************************************************)
(* C20: no view ever contains the same entity more than once: in every     *)
(* reachable state the entity IDs of a view's entries are pairwise         *)
(* distinct.                                                               *)
(***************************************************************************)
C20_NoDuplicateEntry ==
    \A v \in Views :
        \A i, j \in DOMAIN manager.views[v].entities :
            LET qi == manager.views[v].entities[i]
                qj == manager.views[v].entities[j]
            IN  (i # j /\ ~qi.nil /\ ~qj.nil) => qi.Entity # qj.Entity

(***************************************************************************)
(* C21: a View returned by CreateView(s) contains every entity that        *)
(* matches s: when CreateView(s) runs concurrently with an AddComponent    *)
(* call that makes entity e match s, then once both calls have returned    *)
(* the view contains e.                                                    *)
(***************************************************************************)
Created(t) == At(t, "done") /\ threads[t].e = NoArg

MadeMatch(u, s) ==
    /\ At(u, "done") /\ threads[u].e # NoArg
    /\ ~matches(threads[u].tagbefore, s)
    /\ matches(entity[threads[u].e].tag, s)

C21_CreatedViewHasEntity ==
    \A t, u \in Threads :
        (Created(t) /\ MadeMatch(u, threads[t].tag))
            => threads[u].e \in IdsOf(manager.views[threads[t].v].entities)

(***************************************************************************)
(* C22: on detach the destructor runs before the payload is removed and    *)
(* before the signature is updated: in the step in which a component's     *)
(* destructor is invoked for entity e, before and after that step the      *)
(* payload handed to the destructor is stored in the component's map for e *)
(* and e's signature has the component's bit set.                          *)
(***************************************************************************)
StoredWithBit(d, comp, ent) ==
    /\ d.e \in DOMAIN comp[d.c].data
    /\ comp[d.c].data[d.e] = d.data
    /\ comp[d.c].tag.flags # {}
    /\ comp[d.c].tag.flags \subseteq ent[d.e].tag.flags

C22_DestructorBeforeRemoval ==
    [][destructed' # destructed =>
          LET d == destructed'[Len(destructed')]
          IN  /\ Len(destructed') = Len(destructed) + 1
              /\ StoredWithBit(d, component, entity)
              /\ StoredWithBit(d, component', entity')]_vars

(***************************************************************************)
(* C23: when two threads concurrently call AddComponent on the same entity *)
(* with two different components, then after both calls have returned the *)
(* entity's signature has both components' bits set and both payloads are  *)
(* stored, in every interleaving.                                          *)
(***************************************************************************)
SameEntityOtherComponent(t, u) ==
    /\ t # u
    /\ threads[t].e = threads[u].e
    /\ threads[t].c # threads[u].c

C23_BothAttached ==
    \A t, u \in Threads :
        (At(t, "done") /\ At(u, "done") /\ SameEntityOtherComponent(t, u))
        => /\ component[threads[t].c].tag.flags
                  \subseteq entity[threads[t].e].tag.flags
           /\ GetComponentData(Heap, threads[t].e, threads[t].c)
                  = [data |-> threads[t].p, ok |-> TRUE]

(***************************************************************************)
(* C24: when two threads concurrently call RemoveComponent with different  *)
(* components on two different entities that both leave the same view by   *)
(* it, then after both calls have returned the view holds neither of the   *)
(* two entities and still holds every other entity it held before.         *)
(***************************************************************************)
\* The call of thread t took its entity out of the signature of view v.
Left(t, v) ==
    /\ matches(threads[t].tagbefore, manager.views[v].tag)
    /\ ~matches(entity[threads[t].e].tag, manager.views[v].tag)

\* Every entity the setup left in a view matched it: those that still match.
Stayed(v) == {e \in Handles : matches(entity[e].tag, manager.views[v].tag)}

C24_BothRemoved ==
    \A t, u \in Threads, v \in Views :
        (/\ At(t, "done") /\ At(u, "done")
         /\ threads[t].e # threads[u].e /\ threads[t].c # threads[u].c
         /\ Left(t, v) /\ Left(u, v))
        => /\ threads[t].e \notin IdsOf(manager.views[v].entities)
           /\ threads[u].e \notin IdsOf(manager.views[v].entities)
           /\ Stayed(v) \subseteq IdsOf(manager.views[v].entities)

(***************************************************************************)
(* C25: whether NewComponent succeeds depends only on the number of        *)
(* components registered, never on the number of entities created: after   *)
(* any number of NewEntity calls it fails with the overflow only when 64   *)
(* components are registered.                                              *)
(***************************************************************************)
C25_OverflowByComponentsOnly ==
    fault = "Component overflow" => Len(manager.components) >= MaxRegistered

(***************************************************************************)
(* C26: every registered component's signature has exactly one bit set     *)
(* within the 64-bit mask, and two distinct components never share a bit,  *)
(* in every reachable state, including when NewComponent and NewEntity     *)
(* calls run concurrently around the overflow limit.                       *)
(***************************************************************************)
C26_OneBitEach ==
    /\ \A c \in Registered :
          /\ Cardinality(component[c].tag.flags) = 1
          /\ component[c].tag.flags \subseteq 0..(TagBits - 1)
    /\ \A c, d \in Registered :
          c # d => component[c].tag.flags \cap component[d].tag.flags = {}

(***************************************************************************)
(* C27: every entry of every view is a non-nil QueryResult of an entity    *)
(* that is in the manager's entity index, after any sequence of            *)
(* operations, and no operation faults because of an absent entry.         *)
(***************************************************************************)
C27_EntriesLive ==
    /\ fault # "nil dereference"
    /\ \A v \in Views :
          \A i \in DOMAIN manager.views[v].entities :
              /\ ~manager.views[v].entities[i].nil
              /\ manager.views[v].entities[i].Entity \in manager.entitiesByID

(***************************************************************************)
(* C28: for every entry of a view on signature s and every component c of  *)
(* s, the payload the entry's component map records for c is the payload   *)
(* currently stored in c for the entry's entity, after any sequence of     *)
(* operations.                                                             *)
(***************************************************************************)
C28_EntryPayloadCurrent ==
    \A v \in Views :
        \A i \in DOMAIN manager.views[v].entities :
            LET qr == manager.views[v].entities[i]
            IN  ~qr.nil
                => \A c \in KeysOf(manager.views[v].tag) :
                      /\ c \in DOMAIN qr.Components
                      /\ qr.Entity \in DOMAIN component[c].data
                      /\ qr.Components[c] = component[c].data[qr.Entity]

====
